---------------------------- MODULE Spec2Model ----------------------------
(***************************************************************************)
(* Model of the calculator in src/calc.py (line interface) and             *)
(* src/calc_gui.py (graphical interface).                                  *)
(*                                                                         *)
(* Numbers.  A Python value is a record [k, n, d]: k is the Python type    *)
(* ("int", "float", "complex", "none", "str"), and n/d is the number in    *)
(* lowest terms (d > 0).  A float is carried as the exact rational it      *)
(* stands for; results that are irrational (roots) are rounded down to     *)
(* 1/RootScale.  The imaginary part of a complex value is not carried.     *)
(* An outcome of a call is a record [exc, msg, val]: exc = "ok" and the    *)
(* value returned, or the name of the Python exception raised.             *)
(***************************************************************************)
EXTENDS Integers, Sequences, FiniteSets, TLC

VARIABLES
    phase,          \* which step the scenario in hand has reached
    tree,           \* evaluator scenario: the syntax tree handed to SafeEval
    names,          \* evaluator scenario: the caller's bindings
    flavour,        \* evaluator scenario: "cli" (calc.py) or "gui" (calc_gui.py)
    result,         \* evaluator scenario: outcome of SafeEval(names).visit(tree)
    text,           \* text scenario: the expression text handed to safe_eval
    cliResult,      \* text scenario: outcome of calc.safe_eval(text, {})
    guiResult,      \* text scenario: outcome of calc_gui.safe_eval(text, {})
    ans,            \* run_repl: the local ans
    replOn,         \* run_repl: the while loop has not been left
    printed,        \* run_repl: what the last line read made it print
    replLog,        \* run_repl: the lines read so far, in order
    expr,           \* CalcApp: the text of self.expr, shown in the entry
    last_result,    \* CalcApp: self.last_result
    history,        \* CalcApp: self.history, a list of (expr, result)
    hlist,          \* CalcApp: the items of the listbox self.hlist, top first
    history_line,   \* CalcApp: the text of the label self.history_line
    sel,            \* CalcApp: the selected row of self.hlist, 0 when none
    alert,          \* CalcApp: the error dialog the last action opened
    lastAction      \* CalcApp: the handler that ran last

evalVars == <<tree, names, flavour, result>>
textVars == <<text, cliResult, guiResult>>
replVars == <<ans, replOn, printed, replLog>>
guiVars == <<expr, last_result, history, hlist, history_line, sel, alert, lastAction>>
vars == <<phase, evalVars, textVars, replVars, guiVars>>

(***************************************************************************)
(* Bounds of the model.                                                    *)
(***************************************************************************)
MaxInt == 7

(***************************************************************************)
(* Values and outcomes.                                                    *)
(***************************************************************************)
RECURSIVE GCD(_, _)
GCD(a, b) == IF b = 0 THEN a ELSE GCD(b, a % b)

Abs(x) == IF x < 0 THEN -x ELSE x

IntV(i) == [k |-> "int", n |-> i, d |-> 1]

FloatV(num, den) ==
    LET s == IF den < 0 THEN -1 ELSE 1
        g == GCD(Abs(num), Abs(den))
    IN  [k |-> "float", n |-> (s * num) \div g, d |-> (s * den) \div g]

NoneV == [k |-> "none", n |-> 0, d |-> 1]
ComplexV == [k |-> "complex", n |-> 0, d |-> 1]
StrV == [k |-> "str", n |-> 0, d |-> 1]

IsReal(v) == v.k \in {"int", "float"}
IsNumber(v) == v.k \in {"int", "float", "complex"}

Ret(v) == [exc |-> "ok", msg |-> "", val |-> v]
Raise(e, m) == [exc |-> e, msg |-> m, val |-> NoneV]

\* floor(num/den) for den > 0
FloorQ(num, den) ==
    IF num >= 0 THEN num \div den ELSE -(((-num) + den - 1) \div den)

RECURSIVE PowInt(_, _)
PowInt(b, e) == IF e = 0 THEN 1 ELSE b * PowInt(b, e - 1)

\* floor of the q-th root of x >= 0, by bisection on lo..hi
RECURSIVE IRootIn(_, _, _, _)
IRootIn(q, x, lo, hi) ==
    IF lo >= hi THEN lo
    ELSE LET mid == (lo + hi + 1) \div 2
         IN  IF PowInt(mid, q) <= x THEN IRootIn(q, x, mid, hi)
             ELSE IRootIn(q, x, lo, mid - 1)

\* 46340 is the largest root whose square still fits the checker's integers
IRoot(q, x) == IRootIn(q, x, 0, IF x < 46340 THEN x ELSE 46340)

RootScale == 10 * 10

\* the q-th root of the rational num/den >= 0: exact when it is rational,
\* otherwise rounded down to 1/RootScale
RootQ(q, num, den) ==
    LET rn == IRoot(q, num)
        rd == IRoot(q, den)
    IN  IF PowInt(rn, q) = num /\ PowInt(rd, q) = den
        THEN FloatV(rn, rd)
        ELSE FloatV(IRoot(q, (num * PowInt(RootScale, q)) \div den), RootScale)

(***************************************************************************)
(* Python's arithmetic on these values: the operators SafeEval applies.    *)
(***************************************************************************)
KindOf(a, b) == IF a.k = "int" /\ b.k = "int" THEN "int" ELSE "float"

MkReal(kind, num, den) ==
    IF kind = "int" THEN IntV(num \div den) ELSE FloatV(num, den)

\* a quotient rounded toward zero instead
FloorDivQ_Truncating(a, b) ==
    LET num == a.n * b.d
        den == a.d * b.n
        q == Abs(num) \div Abs(den)
    IN  IF (num < 0) = (den < 0) THEN q ELSE -q

\* a // b on numbers: floor of the quotient (b # 0)
FloorDivQ(a, b) ==
    LET num == a.n * b.d
        den == a.d * b.n
    IN  IF den > 0 THEN FloorQ(num, den) ELSE FloorQ(-num, -den)

\* a ** b for int or float a, b
PyPow(a, b) ==
    IF a.k = "int" /\ b.k = "int" /\ b.n >= 0
    THEN Ret(IntV(PowInt(a.n, b.n)))
    ELSE IF b.d = 1
    THEN IF b.n >= 0
         THEN Ret(FloatV(PowInt(a.n, b.n), PowInt(a.d, b.n)))
         ELSE IF a.n = 0
              THEN Raise("ZeroDivisionError", "0.0 cannot be raised to a negative power")
              ELSE Ret(FloatV(PowInt(a.d, -b.n), PowInt(a.n, -b.n)))
    ELSE IF a.n < 0 THEN Ret(ComplexV)
    ELSE IF a.n = 0
    THEN IF b.n > 0 THEN Ret(FloatV(0, 1))
         ELSE Raise("ZeroDivisionError", "0.0 cannot be raised to a negative power")
    ELSE LET r == RootQ(b.d, PowInt(a.n, Abs(b.n)), PowInt(a.d, Abs(b.n)))
         IN  IF b.n > 0 THEN Ret(r) ELSE Ret(FloatV(r.d, r.n))

\* left <op> right as Python computes it
PyBinary(op, a, b) ==
    IF ~IsNumber(a) \/ ~IsNumber(b)
    THEN Raise("TypeError", "unsupported operand type(s)")
    ELSE IF a.k = "complex" \/ b.k = "complex"
    THEN CASE op \in {"Add", "Sub", "Mult"} -> Ret(ComplexV)
           [] op = "Div" ->
                IF IsReal(b) /\ b.n = 0
                THEN Raise("ZeroDivisionError", "complex division by zero")
                ELSE Ret(ComplexV)
           [] op \in {"FloorDiv", "Mod"} ->
                Raise("TypeError", "unsupported operand type(s)")
           [] op = "Pow" ->
                IF IsReal(a) /\ a.n = 0
                THEN Raise("ZeroDivisionError", "0.0 to a negative or complex power")
                ELSE Ret(ComplexV)
    ELSE CASE op = "Add" ->
                Ret(MkReal(KindOf(a, b), a.n * b.d + b.n * a.d, a.d * b.d))
           [] op = "Sub" ->
                Ret(MkReal(KindOf(a, b), a.n * b.d - b.n * a.d, a.d * b.d))
           [] op = "Mult" ->
                Ret(MkReal(KindOf(a, b), a.n * b.n, a.d * b.d))
           [] op = "Div" ->
                IF b.n = 0 THEN Raise("ZeroDivisionError", "division by zero")
                ELSE Ret(FloatV(a.n * b.d, a.d * b.n))
           [] op = "FloorDiv" ->
                IF b.n = 0
                THEN Raise("ZeroDivisionError", "integer division or modulo by zero")
                ELSE Ret(MkReal(KindOf(a, b), FloorDivQ(a, b), 1))
           [] op = "Mod" ->
                IF b.n = 0
                THEN Raise("ZeroDivisionError", "integer division or modulo by zero")
                ELSE LET q == FloorDivQ(a, b)
                     IN  Ret(MkReal(KindOf(a, b),
                                    a.n * b.d - q * b.n * a.d, a.d * b.d))
           [] op = "Pow" -> PyPow(a, b)

\* +v and -v
PyUnary(op, v) ==
    IF ~IsNumber(v) THEN Raise("TypeError", "bad operand type for unary")
    ELSE IF v.k = "complex" THEN Ret(ComplexV)
    ELSE IF op = "UAdd" THEN Ret(v)
    ELSE Ret([v EXCEPT !.n = -v.n])

\* float(v)
PyFloat(v) ==
    IF IsReal(v) THEN Ret(FloatV(v.n, v.d))
    ELSE Raise("TypeError", "float() argument must be a string or a real number")

(***************************************************************************)
(* The math library behind ALLOWED_FUNCS.  Values are modelled where they  *)
(* are exact: roots everywhere, the trigonometric functions at 0, log10    *)
(* at powers of ten, math.log(x, base) between powers of two; math.log(x)  *)
(* at powers of two, as a multiple of ln 2 = 0.693.                        *)
(***************************************************************************)
\* the k >= 0 with b^k = x, or -1 when there is none (b > 1, x >= 1)
RECURSIVE ILog(_, _)
ILog(b, x) ==
    IF x = 1 THEN 0
    ELSE IF x % b # 0 THEN -1
    ELSE LET r == ILog(b, x \div b) IN IF r < 0 THEN -1 ELSE r + 1

\* log of num/den to the integer base b, when it is an integer
ExactLog(b, v) ==
    CASE v.d = 1 /\ ILog(b, v.n) >= 0 -> ILog(b, v.n)
      [] v.n = 1 /\ v.d > 1 /\ ILog(b, v.d) >= 0 -> -ILog(b, v.d)

DomainError == Raise("ValueError", "math domain error")

MathOne(f, x) ==
    CASE f = "sqrt" -> IF x.n < 0 THEN DomainError ELSE Ret(RootQ(2, x.n, x.d))
      [] f = "sin" /\ x.n = 0 -> Ret(FloatV(0, 1))
      [] f = "cos" /\ x.n = 0 -> Ret(FloatV(1, 1))
      [] f = "tan" /\ x.n = 0 -> Ret(FloatV(0, 1))
      [] f = "log" -> IF x.n <= 0 THEN DomainError
                      ELSE Ret(FloatV(ExactLog(10, x), 1))
      [] f = "ln" -> IF x.n <= 0 THEN DomainError
                     ELSE Ret(FloatV(ExactLog(2, x) * 693, 1000))

\* math.log(x, base) = log(x) / log(base)
MathLogBase(x, base) ==
    IF x.n <= 0 \/ base.n <= 0 THEN DomainError
    ELSE IF base.n = base.d
    THEN Raise("ZeroDivisionError", "float division by zero")
    ELSE Ret(FloatV(ExactLog(2, x), ExactLog(2, base)))

\* ALLOWED_FUNCS[f](*args): math.log takes one or two arguments, the others one
MathCall(f, args) ==
    IF (f = "ln" /\ Len(args) \notin {1, 2}) \/ (f # "ln" /\ Len(args) # 1)
    THEN Raise("TypeError", "wrong number of arguments")
    ELSE IF \E i \in 1..Len(args) : ~IsReal(args[i])
    THEN Raise("TypeError", "must be real number")
    ELSE IF Len(args) = 2 THEN MathLogBase(args[1], args[2])
    ELSE MathOne(f, args[1])

(***************************************************************************)
(* Syntax trees.  A node is [kind, tag, val, kids, nkw]: kind is the ast   *)
(* class; tag the operator class, the identifier or nothing; val the       *)
(* value of a Constant; kids the child nodes in field order (for a Call:   *)
(* func, then args); nkw the number of keyword arguments of a Call.        *)
(***************************************************************************)
Node(kind, tag, val, kids, nkw) ==
    [kind |-> kind, tag |-> tag, val |-> val, kids |-> kids, nkw |-> nkw]

Constant(v) == Node("Constant", "", v, <<>>, 0)
Name(id) == Node("Name", id, NoneV, <<>>, 0)
UnaryOp(op, operand) == Node("UnaryOp", op, NoneV, <<operand>>, 0)
BinOp(left, op, right) == Node("BinOp", op, NoneV, <<left, right>>, 0)
Call(func, args, nkw) == Node("Call", "", NoneV, <<func>> \o args, nkw)
Other(kind, kids) == Node(kind, "", NoneV, kids, 0)

(***************************************************************************)
(* SafeEval, in both files.                                                *)
(***************************************************************************)
ALLOWED_FUNCS == {"sqrt", "sin", "cos", "tan", "log", "ln"}

\* math.pi and math.e, to two decimals
ALLOWED_NAMES == [pi |-> FloatV(314, 100), e |-> FloatV(272, 100)]

\* the node classes generic_visit lists (those an expression can hold)
Forbidden ==
    {"Attribute", "Subscript", "List", "Dict", "Tuple", "Lambda", "IfExp",
     "Compare", "BoolOp"}

\* the merge with the constants taking precedence
MergedNames_ConstantsFirst(nm) ==
    [id \in DOMAIN ALLOWED_NAMES \cup DOMAIN nm |->
        IF id \in DOMAIN ALLOWED_NAMES THEN ALLOWED_NAMES[id] ELSE nm[id]]

\* self.names = {**ALLOWED_NAMES, **names}
MergedNames(nm) ==
    [id \in DOMAIN ALLOWED_NAMES \cup DOMAIN nm |->
        IF id \in DOMAIN nm THEN nm[id] ELSE ALLOWED_NAMES[id]]

\* the arity test of visit_Call: calc.py line 61, calc_gui.py has none
ArityOk(fl, nargs) == IF fl = "cli" THEN 0 < nargs /\ nargs <= 2 ELSE TRUE

RECURSIVE visit(_, _, _)
RECURSIVE visit_all(_, _, _)

\* [self.visit(a) for a in nodes]: the values, or the first exception
visit_all(nodes, nm, fl) ==
    IF nodes = <<>> THEN [exc |-> "ok", msg |-> "", vals |-> <<>>]
    ELSE LET first == visit(Head(nodes), nm, fl)
         IN  IF first.exc # "ok"
             THEN [exc |-> first.exc, msg |-> first.msg, vals |-> <<>>]
             ELSE LET rest == visit_all(Tail(nodes), nm, fl)
                  IN  [rest EXCEPT !.vals = IF rest.exc = "ok"
                                            THEN <<first.val>> \o rest.vals
                                            ELSE <<>>]

visit_Constant(node) ==
    IF node.val.k \in {"int", "float"} THEN Ret(node.val)
    ELSE Raise("ValueError", "only numbers allowed")

visit_Name(node, nm) ==
    IF node.tag \in DOMAIN MergedNames(nm) THEN Ret(MergedNames(nm)[node.tag])
    ELSE Raise("ValueError", "name not allowed")

visit_BinOp(node, nm, fl) ==
    LET left == visit(node.kids[1], nm, fl)
    IN  IF left.exc # "ok" THEN left
        ELSE LET right == visit(node.kids[2], nm, fl)
             IN  IF right.exc # "ok" THEN right
                 ELSE IF node.tag \in {"Add", "Sub", "Mult", "Div",
                                       "FloorDiv", "Mod", "Pow"}
                 THEN PyBinary(node.tag, left.val, right.val)
                 ELSE Raise("ValueError", "operator not allowed")

visit_UnaryOp(node, nm, fl) ==
    LET v == visit(node.kids[1], nm, fl)
    IN  IF v.exc # "ok" THEN v
        ELSE IF node.tag \in {"UAdd", "USub"} THEN PyUnary(node.tag, v.val)
        ELSE Raise("ValueError", "unary operator not allowed")

visit_Call(node, nm, fl) ==
    LET func == node.kids[1]
        args == Tail(node.kids)
    IN  IF func.kind # "Name" THEN Raise("ValueError", "function not allowed")
        ELSE IF func.tag \notin ALLOWED_FUNCS
        THEN Raise("ValueError", "function not allowed")
        ELSE IF ~ArityOk(fl, Len(args))
        THEN Raise("ValueError", "bad function arity")
        ELSE IF node.nkw > 0
        THEN Raise("ValueError", IF fl = "cli" THEN "bad function arity"
                                 ELSE "no keyword args")
        ELSE LET vs == visit_all(args, nm, fl)
             IN  IF vs.exc # "ok" THEN Raise(vs.exc, vs.msg)
                 ELSE MathCall(func.tag, vs.vals)

\* a listed class raises; any other class has its children visited by
\* NodeVisitor.generic_visit, which returns None
generic_visit(node, nm, fl) ==
    IF node.kind \in Forbidden THEN Raise("ValueError", "syntax not allowed")
    ELSE LET vs == visit_all(node.kids, nm, fl)
         IN  IF vs.exc # "ok" THEN Raise(vs.exc, vs.msg) ELSE Ret(NoneV)

\* NodeVisitor.visit: dispatch on the class name
visit(node, nm, fl) ==
    CASE node.kind = "Constant" -> visit_Constant(node)
      [] node.kind = "Name"     -> visit_Name(node, nm)
      [] node.kind = "BinOp"    -> visit_BinOp(node, nm, fl)
      [] node.kind = "UnaryOp"  -> visit_UnaryOp(node, nm, fl)
      [] node.kind = "Call"     -> visit_Call(node, nm, fl)
      [] OTHER                  -> generic_visit(node, nm, fl)

(***************************************************************************)
(* ast.parse(expr, mode="eval") on a text, given as a sequence of          *)
(* one-character strings.  The grammar is Python's for the characters the  *)
(* scenarios use: digits, letters, space and . + - * / % ( ) , { }.        *)
(* Identifiers that are Python keywords are not among the inputs.          *)
(***************************************************************************)
Digits == {"0", "1", "2", "3", "4", "5", "6", "7", "8", "9"}

Letters ==
    {"a", "b", "c", "d", "e", "f", "g", "h", "i", "j", "k", "l", "m", "n",
     "o", "p", "q", "r", "s", "t", "u", "v", "w", "x", "y", "z"}

DigitVal(c) ==
    CASE c = "0" -> 0 [] c = "1" -> 1 [] c = "2" -> 2 [] c = "3" -> 3
      [] c = "4" -> 4 [] c = "5" -> 5 [] c = "6" -> 6 [] c = "7" -> 7
      [] c = "8" -> 8 [] c = "9" -> 9

At(cs, i) == IF 1 <= i /\ i <= Len(cs) THEN cs[i] ELSE ""

\* the first index from i on that holds no character of class
RECURSIVE RunEnd(_, _, _)
RunEnd(cs, i, class) ==
    IF At(cs, i) \in class THEN RunEnd(cs, i + 1, class) ELSE i

\* the number written by the digits cs[a..b-1]
RECURSIVE NumVal(_, _, _)
NumVal(cs, a, b) ==
    IF b <= a THEN 0 ELSE NumVal(cs, a, b - 1) * 10 + DigitVal(cs[b - 1])

RECURSIVE Join(_)
Join(cs) == IF cs = <<>> THEN "" ELSE Head(cs) \o Join(Tail(cs))

Token(t, str, v) == [t |-> t, s |-> str, v |-> v]
EndToken == Token("end", "", NoneV)

\* a number literal starting at i: [ok, tok, next]
LexNumber(cs, i) ==
    LET j == RunEnd(cs, i, Digits)
        hasDot == At(cs, j) = "."
        k == IF hasDot THEN RunEnd(cs, j + 1, Digits) ELSE j
        signed == At(cs, k + 1) \in {"+", "-"}
        expStart == IF signed THEN k + 2 ELSE k + 1
        expEnd == RunEnd(cs, expStart, Digits)
        hasExp == At(cs, k) = "e" /\ expEnd > expStart
        end == IF hasExp THEN expEnd ELSE k
        isFloat == hasDot \/ hasExp
        fracLen == IF hasDot THEN k - (j + 1) ELSE 0
        mant == NumVal(cs, i, j) * PowInt(10, fracLen) + NumVal(cs, j + 1, k)
        ex == (IF hasExp
               THEN (IF At(cs, k + 1) = "-" THEN -1 ELSE 1) * NumVal(cs, expStart, expEnd)
               ELSE 0)
              - fracLen
        leadingZeros == ~isFloat /\ j - i > 1 /\ cs[i] = "0" /\ NumVal(cs, i, j) # 0
        value == IF ~isFloat THEN IntV(NumVal(cs, i, j))
                 ELSE IF ex >= 0 THEN FloatV(mant * PowInt(10, ex), 1)
                 ELSE FloatV(mant, PowInt(10, -ex))
    IN  IF leadingZeros \/ At(cs, end) \in Letters
        THEN [ok |-> FALSE, tok |-> EndToken, next |-> end]
        ELSE [ok |-> TRUE, tok |-> Token("num", "", value), next |-> end]

\* the tokens of cs from i on: [ok, toks]
RECURSIVE Tokenize(_, _)
Tokenize(cs, i) ==
    LET c == At(cs, i)
        more(tok, next) ==
            LET rest == Tokenize(cs, next)
            IN  [rest EXCEPT !.toks = IF rest.ok THEN <<tok>> \o rest.toks ELSE <<>>]
    IN  IF i > Len(cs) THEN [ok |-> TRUE, toks |-> <<>>]
        ELSE IF c = " " THEN Tokenize(cs, i + 1)
        ELSE IF c \in Digits \/ (c = "." /\ At(cs, i + 1) \in Digits)
        THEN LET num == LexNumber(cs, i)
             IN  IF num.ok THEN more(num.tok, num.next)
                 ELSE [ok |-> FALSE, toks |-> <<>>]
        ELSE IF c \in Letters
        THEN LET j == RunEnd(cs, i, Letters \cup Digits)
             IN  more(Token("name", Join(SubSeq(cs, i, j - 1)), NoneV), j)
        ELSE IF c = "." /\ At(cs, i + 1) = "." /\ At(cs, i + 2) = "."
        THEN more(Token("op", "...", NoneV), i + 3)
        ELSE IF c \in {"*", "/"} /\ At(cs, i + 1) = c
        THEN more(Token("op", c \o c, NoneV), i + 2)
        ELSE IF c \in {"+", "-", "*", "/", "%", "(", ")", ",", "{", "}", "."}
        THEN more(Token("op", c, NoneV), i + 1)
        ELSE [ok |-> FALSE, toks |-> <<>>]

Tok(toks, i) == IF i <= Len(toks) THEN toks[i] ELSE EndToken
IsOp(toks, i, ops) == Tok(toks, i).t = "op" /\ Tok(toks, i).s \in ops

Parsed(node, pos) == [ok |-> TRUE, node |-> node, pos |-> pos]
NoParse == [ok |-> FALSE, node |-> Constant(NoneV), pos |-> 0]

BinOpOf(str) ==
    CASE str = "+" -> "Add" [] str = "-" -> "Sub" [] str = "*" -> "Mult"
      [] str = "/" -> "Div" [] str = "//" -> "FloorDiv" [] str = "%" -> "Mod"
      [] str = "**" -> "Pow"

RECURSIVE ParseSum(_, _)
RECURSIVE SumRest(_, _, _)
RECURSIVE ParseTerm(_, _)
RECURSIVE TermRest(_, _, _)
RECURSIVE ParseFactor(_, _)
RECURSIVE ParsePower(_, _)
RECURSIVE ParsePrimary(_, _)
RECURSIVE Trailers(_, _, _)
RECURSIVE ParseAtom(_, _)
RECURSIVE ParseItems(_, _, _)

\* sum: sum ('+' | '-') term | term
SumNext(toks, left, i, right) ==
    IF right.ok
    THEN SumRest(toks, BinOp(left, BinOpOf(toks[i].s), right.node), right.pos)
    ELSE NoParse

SumRest(toks, left, i) ==
    IF IsOp(toks, i, {"+", "-"})
    THEN SumNext(toks, left, i, ParseTerm(toks, i + 1))
    ELSE Parsed(left, i)

SumFrom(toks, left) ==
    IF left.ok THEN SumRest(toks, left.node, left.pos) ELSE NoParse

ParseSum(toks, i) == SumFrom(toks, ParseTerm(toks, i))

\* term: term ('*' | '/' | '//' | '%') factor | factor
TermNext(toks, left, i, right) ==
    IF right.ok
    THEN TermRest(toks, BinOp(left, BinOpOf(toks[i].s), right.node), right.pos)
    ELSE NoParse

TermRest(toks, left, i) ==
    IF IsOp(toks, i, {"*", "/", "//", "%"})
    THEN TermNext(toks, left, i, ParseFactor(toks, i + 1))
    ELSE Parsed(left, i)

TermFrom(toks, left) ==
    IF left.ok THEN TermRest(toks, left.node, left.pos) ELSE NoParse

ParseTerm(toks, i) == TermFrom(toks, ParseFactor(toks, i))

\* factor: ('+' | '-') factor | power
SignedFactor(sign, operand) ==
    IF operand.ok
    THEN Parsed(UnaryOp(IF sign = "+" THEN "UAdd" ELSE "USub", operand.node),
                operand.pos)
    ELSE NoParse

ParseFactor(toks, i) ==
    IF IsOp(toks, i, {"+", "-"})
    THEN SignedFactor(toks[i].s, ParseFactor(toks, i + 1))
    ELSE ParsePower(toks, i)

\* power: primary '**' factor | primary
Raised(base, ex) ==
    IF ex.ok THEN Parsed(BinOp(base.node, "Pow", ex.node), ex.pos) ELSE NoParse

PowerFrom(toks, base) ==
    IF base.ok /\ IsOp(toks, base.pos, {"**"})
    THEN Raised(base, ParseFactor(toks, base.pos + 1))
    ELSE base

ParsePower(toks, i) == PowerFrom(toks, ParsePrimary(toks, i))

\* the items of a call, a parenthesis or a brace, from i up to the closing
\* token: [ok, items, stars, dstars, commas, pos], pos after the closer.
\* An item is an expression, '*' expression (Starred) or '**' expression.
NoItems ==
    [ok |-> FALSE, items |-> <<>>, stars |-> 0, dstars |-> 0, commas |-> 0, pos |-> 0]

ItemsEnd(pos) == [NoItems EXCEPT !.ok = TRUE, !.pos = pos]

\* item, written at i, put before the items rest that follow it
ItemsJoin(toks, i, item, comma, rest) ==
    LET star == IsOp(toks, i, {"*"})
        dstar == IsOp(toks, i, {"**"})
    IN  IF ~rest.ok \/ (dstar /\ rest.items # <<>>) THEN NoItems
        ELSE [ok |-> TRUE,
              items |-> IF dstar THEN rest.items
                        ELSE <<IF star THEN Other("Starred", <<item.node>>)
                               ELSE item.node>> \o rest.items,
              stars |-> rest.stars + (IF star THEN 1 ELSE 0),
              dstars |-> rest.dstars + (IF dstar THEN 1 ELSE 0),
              commas |-> rest.commas + (IF comma THEN 1 ELSE 0),
              pos |-> rest.pos]

ItemsAfter(toks, i, closer, item) ==
    IF ~item.ok THEN NoItems
    ELSE IF IsOp(toks, item.pos, {","})
    THEN ItemsJoin(toks, i, item, TRUE, ParseItems(toks, item.pos + 1, closer))
    ELSE IF IsOp(toks, item.pos, {closer})
    THEN ItemsJoin(toks, i, item, FALSE, ItemsEnd(item.pos + 1))
    ELSE NoItems

ParseItems(toks, i, closer) ==
    IF IsOp(toks, i, {closer}) THEN ItemsEnd(i + 1)
    ELSE ItemsAfter(toks, i, closer,
                    ParseSum(toks, IF IsOp(toks, i, {"*", "**"}) THEN i + 1 ELSE i))

\* primary: atom, then calls '(' args ')' and attributes '.' NAME
Called(toks, node, args) ==
    IF args.ok
    THEN Trailers(toks, Call(node, args.items, args.dstars), args.pos)
    ELSE NoParse

Trailers(toks, node, i) ==
    IF IsOp(toks, i, {"("})
    THEN Called(toks, node, ParseItems(toks, i + 1, ")"))
    ELSE IF IsOp(toks, i, {"."})
    THEN IF Tok(toks, i + 1).t = "name"
         THEN Trailers(toks, Other("Attribute", <<node>>), i + 2)
         ELSE NoParse
    ELSE Parsed(node, i)

PrimaryFrom(toks, atom) ==
    IF atom.ok THEN Trailers(toks, atom.node, atom.pos) ELSE NoParse

ParsePrimary(toks, i) == PrimaryFrom(toks, ParseAtom(toks, i))

\* '(' items ')': a group when one item without comma, else a tuple
Group(in) ==
    IF ~in.ok \/ in.dstars > 0 THEN NoParse
    ELSE IF Len(in.items) = 1 /\ in.commas = 0
    THEN IF in.stars > 0 THEN NoParse ELSE Parsed(in.items[1], in.pos)
    ELSE Parsed(Other("Tuple", in.items), in.pos)

\* '{' items '}': a dict when empty, else a set
Braces(in) ==
    IF ~in.ok THEN NoParse
    ELSE IF in.items = <<>> THEN Parsed(Other("Dict", <<>>), in.pos)
    ELSE IF in.dstars > 0 THEN NoParse
    ELSE Parsed(Other("Set", in.items), in.pos)

\* atom: NUMBER | NAME | '...' | group or tuple | set or dict
ParseAtom(toks, i) ==
    LET tok == Tok(toks, i)
    IN  CASE tok.t = "num" -> Parsed(Constant(tok.v), i + 1)
          [] tok.t = "name" -> Parsed(Name(tok.s), i + 1)
          [] tok.t = "op" /\ tok.s = "..." -> Parsed(Constant(StrV), i + 1)
          [] tok.t = "op" /\ tok.s = "(" -> Group(ParseItems(toks, i + 1, ")"))
          [] tok.t = "op" /\ tok.s = "{" -> Braces(ParseItems(toks, i + 1, "}"))
          [] OTHER -> NoParse

\* the top level is expressions: expression (',' expression)* [','], a
\* Tuple when a comma is written
TopLevel(top) ==
    IF ~top.ok \/ top.items = <<>> \/ top.stars > 0 \/ top.dstars > 0
    THEN NoParse
    ELSE IF Len(top.items) = 1 /\ top.commas = 0 THEN Parsed(top.items[1], top.pos)
    ELSE Parsed(Other("Tuple", top.items), top.pos)

ParseTokens(lexed) ==
    IF ~lexed.ok THEN NoParse
    ELSE TopLevel(ParseItems(lexed.toks \o <<Token("op", "<end>", NoneV)>>, 1, "<end>"))

\* ast.parse(text, mode="eval").body: [ok, node]; text that starts with a
\* blank is an IndentationError.
parse(cs) ==
    IF cs = <<>> \/ cs[1] = " " THEN NoParse ELSE ParseTokens(Tokenize(cs, 1))

\* the pattern without its fraction group: \d+%
PercentMatch_NoFraction(cs, i) ==
    LET j == RunEnd(cs, i, Digits)
    IN  IF j > i /\ At(cs, j) = "%" THEN j ELSE 0

\* where a match of (\d+(?:\.\d+)?)% that starts at i ends (the index of
\* its '%'), or 0 when none starts there
PercentMatch(cs, i) ==
    LET j == RunEnd(cs, i, Digits)
        k == RunEnd(cs, j + 1, Digits)
    IN  IF j = i THEN 0
        ELSE IF At(cs, j) = "%" THEN j
        ELSE IF At(cs, j) = "." /\ k > j + 1 /\ At(cs, k) = "%" THEN k
        ELSE 0

\* re.sub(r'(\d+(?:\.\d+)?)%', r'(\1*0.01)', s), from i on
RECURSIVE PercentSub(_, _)
PercentSub(cs, i) ==
    IF i > Len(cs) THEN <<>>
    ELSE LET m == PercentMatch(cs, i)
         IN  IF m > 0
             THEN <<"(">> \o SubSeq(cs, i, m - 1) \o <<"*", "0", ".", "0", "1", ")">>
                    \o PercentSub(cs, m + 1)
             ELSE <<cs[i]>> \o PercentSub(cs, i + 1)

percent_to_mul(cs) == PercentSub(cs, 1)

SyntaxError == Raise("SyntaxError", "invalid syntax")

\* SafeEval(names).visit(tree), or the SyntaxError of ast.parse
VisitParsed(t, nm, fl) == IF t.ok THEN visit(t.node, nm, fl) ELSE SyntaxError

\* safe_eval of calc.py
safe_eval_cli(cs, nm) == VisitParsed(parse(cs), nm, "cli")

\* safe_eval of calc_gui.py
safe_eval_gui(cs, nm) == VisitParsed(parse(percent_to_mul(cs)), nm, "gui")

(***************************************************************************)
(* format_num (calc.py) and fmt_num (calc_gui.py): the display text of a   *)
(* float, as a sequence of characters.                                     *)
(***************************************************************************)
DigitChar(i) ==
    CASE i = 0 -> "0" [] i = 1 -> "1" [] i = 2 -> "2" [] i = 3 -> "3"
      [] i = 4 -> "4" [] i = 5 -> "5" [] i = 6 -> "6" [] i = 7 -> "7"
      [] i = 8 -> "8" [] i = 9 -> "9"

\* the decimal digits of i >= 0
RECURSIVE DigitsOf(_)
DigitsOf(i) == IF i < 10 THEN <<i>> ELSE DigitsOf(i \div 10) \o <<i % 10>>

DigitChars(ds) == [i \in 1..Len(ds) |-> DigitChar(ds[i])]

\* str(int(x))
IntText(i) == (IF i < 0 THEN <<"-">> ELSE <<>>) \o DigitChars(DigitsOf(Abs(i)))

\* the next cnt digits of r/d (r < d) after the point, and what remains
RECURSIVE LongDiv(_, _, _)
LongDiv(r, d, cnt) ==
    IF cnt = 0 THEN [ds |-> <<>>, rem |-> r]
    ELSE LET rest == LongDiv((r * 10) % d, d, cnt - 1)
         IN  [rest EXCEPT !.ds = <<(r * 10) \div d>> \o rest.ds]

\* how many zeros follow the point of r/d (0 < r < d) before its first digit
RECURSIVE LeadZeros(_, _)
LeadZeros(r, d) == IF r * 10 >= d THEN 0 ELSE 1 + LeadZeros(r * 10, d)

\* ds + 1 in the last place: [ds, carry]
RECURSIVE IncDigits(_)
IncDigits(ds) ==
    IF ds = <<>> THEN [ds |-> <<>>, carry |-> TRUE]
    ELSE LET n == Len(ds)
         IN  IF ds[n] < 9
             THEN [ds |-> [ds EXCEPT ![n] = ds[n] + 1], carry |-> FALSE]
             ELSE LET front == IncDigits(SubSeq(ds, 1, n - 1))
                  IN  [front EXCEPT !.ds = front.ds \o <<0>>]

RECURSIVE StripZeros(_)
StripZeros(ds) ==
    IF Len(ds) > 1 /\ ds[Len(ds)] = 0 THEN StripZeros(SubSeq(ds, 1, Len(ds) - 1))
    ELSE ds

Zeros(cnt) == [i \in 1..cnt |-> 0]

\* f"{x:.12g}" of a float that is no integer
Format12g(v) ==
    LET a == Abs(v.n)
        whole == a \div v.d
        head == IF whole > 0 THEN DigitsOf(whole) ELSE <<>>
        z == IF whole > 0 THEN 0 ELSE LeadZeros(a % v.d, v.d)
        tail == LongDiv((a % v.d) * PowInt(10, z), v.d, 12 - Len(head))
        raw == head \o tail.ds
        up == 2 * tail.rem > v.d \/ (2 * tail.rem = v.d /\ raw[12] % 2 = 1)
        inc == IncDigits(raw)
        x0 == IF whole > 0 THEN Len(head) - 1 ELSE -(z + 1)
        x == IF up /\ inc.carry THEN x0 + 1 ELSE x0
        sig == StripZeros(IF ~up THEN raw
                          ELSE IF inc.carry THEN <<1>> ELSE inc.ds)
        padded == IF Len(sig) < x + 1 THEN sig \o Zeros(x + 1 - Len(sig)) ELSE sig
        body ==
            IF x >= 0 /\ x < 12
            THEN DigitChars(SubSeq(padded, 1, x + 1))
                 \o (IF Len(padded) > x + 1
                     THEN <<".">> \o DigitChars(SubSeq(padded, x + 2, Len(padded)))
                     ELSE <<>>)
            ELSE IF x < 0 /\ x >= -4
            THEN <<"0", ".">> \o DigitChars(Zeros(-x - 1) \o sig)
            ELSE <<DigitChar(sig[1])>>
                 \o (IF Len(sig) > 1 THEN <<".">> \o DigitChars(Tail(sig)) ELSE <<>>)
                 \o <<"e", IF x < 0 THEN "-" ELSE "+">>
                 \o (IF Abs(x) < 10 THEN <<"0">> ELSE <<>>)
                 \o DigitChars(DigitsOf(Abs(x)))
    IN  (IF v.n < 0 THEN <<"-">> ELSE <<>>) \o body

\* format_num(x) and fmt_num(x) for a float x
format_num(v) == IF v.n % v.d = 0 THEN IntText(v.n \div v.d) ELSE Format12g(v)

fmt_num(v) == IF v.n % v.d = 0 THEN IntText(v.n \div v.d) ELSE Format12g(v)

\* str.strip() on blanks
RECURSIVE strip(_)
strip(cs) ==
    IF cs = <<>> THEN cs
    ELSE IF Head(cs) = " " THEN strip(Tail(cs))
    ELSE IF cs[Len(cs)] = " " THEN strip(SubSeq(cs, 1, Len(cs) - 1))
    ELSE cs

(***************************************************************************)
(* Evaluator scenario: one tree, one set of bindings, one of the two       *)
(* SafeEval classes; the step is SafeEval(names).visit(tree).              *)
(***************************************************************************)
Pending == [exc |-> "pending", msg |-> "", val |-> NoneV]

IntLits == {Constant(IntV(i)) : i \in 0..MaxInt}
FloatLits == {Constant(FloatV(1, 2)), Constant(FloatV(3, 2))}
NameLeaves == {Name(id) : id \in {"pi", "e", "ans", "x"}}
Leaves == IntLits \cup FloatLits \cup NameLeaves

Signed == Leaves \cup {UnaryOp(u, l) : u \in {"UAdd", "USub"}, l \in Leaves}

ArithTrees ==
    {BinOp(l, op, r) : l \in Signed, r \in Signed,
        op \in {"Add", "Sub", "Mult", "Div", "FloorDiv", "Mod", "BitOr"}}

PowExponents ==
    LET es == {Constant(IntV(0)), Constant(IntV(1)), Constant(IntV(2)),
               Constant(FloatV(1, 2))}
    IN  es \cup {UnaryOp("USub", x) : x \in es}

PowTrees == {BinOp(l, "Pow", r) : l \in Signed, r \in PowExponents}

UnaryTrees ==
    {UnaryOp(u, l) : u \in {"UAdd", "USub", "Not", "Invert"}, l \in Leaves}
    \cup {UnaryOp("USub", t) : t \in {BinOp(l, "Pow", Constant(IntV(2))) : l \in IntLits}}

\* the arguments tried on each function
ArgsOf(f) ==
    CASE f = "sqrt" -> {Constant(IntV(9)), Constant(IntV(2)), Constant(IntV(1)),
                        UnaryOp("USub", Constant(IntV(1))),
                        Other("Starred", <<Name("pi")>>)}
      [] f \in {"sin", "cos", "tan"} ->
                       {Constant(IntV(0)), Constant(FloatV(0, 1)), Name("y")}
      [] f = "log"  -> {Constant(IntV(1)), Constant(IntV(10)), Constant(IntV(100)),
                        Constant(IntV(0)), Constant(FloatV(1, 10))}
      [] f = "ln"   -> {Constant(IntV(1)), Constant(IntV(8)), Constant(IntV(2)),
                        Constant(IntV(0)), UnaryOp("USub", Constant(IntV(1)))}
      [] OTHER      -> {Constant(IntV(1))}

ArgLists(f) ==
    UNION {[1..len -> ArgsOf(f)] : len \in 0..3}

CallTrees ==
    {Call(Name(f), args, nkw) :
        <<f, args>> \in {<<g, a>> \in (ALLOWED_FUNCS \cup {"abs"}) \X
                            UNION {ArgLists(h) : h \in ALLOWED_FUNCS \cup {"abs"}} :
                            a \in ArgLists(g)},
        nkw \in {0, 1}}
    \cup {Call(Other("Attribute", <<Name("math")>>), <<Constant(IntV(1))>>, 0)}

\* node classes SafeEval has no visit_ method for
UnlistedKinds == {"Set", "JoinedStr", "Starred", "NamedExpr", "Slice"}

OtherTrees ==
    LET small == {Constant(IntV(1)), Constant(IntV(2)), Name("pi"), Name("x"),
                  Constant(StrV)}
        shaped == {Other(kd, kids) : kd \in Forbidden \cup UnlistedKinds,
                       kids \in {<<>>} \cup {<<a>> : a \in small}
                                \cup {<<a, b>> : a \in small, b \in small}}
    IN  shaped
        \cup {Constant(StrV)}
        \cup {BinOp(Constant(IntV(1)), "Add", t) : t \in shaped}
        \cup {UnaryOp("USub", t) : t \in shaped}
        \cup {Call(Name("sqrt"), <<t>>, 0) : t \in shaped}
        \cup {Other("Set", <<t>>) : t \in shaped}

Trees == ArithTrees \cup PowTrees \cup UnaryTrees \cup CallTrees \cup OtherTrees
            \cup Leaves

EmptyNames == [id \in {} |-> NoneV]

Bindings ==
    {EmptyNames,
     [ans |-> FloatV(4, 1)],
     [ans |-> FloatV(-8, 1)],
     [pi |-> FloatV(3, 1)],
     [x |-> FloatV(1, 1), ans |-> FloatV(0, 1)]}

TextIdle == text = <<>> /\ cliResult = Pending /\ guiResult = Pending

NoPrint == [kind |-> "", text |-> <<>>, msg |-> ""]

ReplIdle ==
    ans = FloatV(0, 1) /\ replOn = FALSE /\ printed = NoPrint /\ replLog = <<>>

NoAlert == [open |-> FALSE, msg |-> ""]

\* CalcApp.__init__
GuiNew ==
    /\ expr = <<>> /\ last_result = FloatV(0, 1) /\ history = <<>>
    /\ hlist = <<>> /\ history_line = <<>> /\ sel = 0
    /\ alert = NoAlert /\ lastAction = "init"

InitEval ==
    /\ phase = "input"
    /\ TextIdle
    /\ ReplIdle
    /\ GuiNew
    /\ tree \in Trees
    /\ names \in Bindings
    /\ flavour \in {"cli", "gui"}
    /\ result = Pending

\* SafeEval(names).visit(tree.body)
Evaluate ==
    /\ phase = "input"
    /\ result' = visit(tree, names, flavour)
    /\ phase' = "done"
    /\ UNCHANGED <<tree, names, flavour, textVars, replVars, guiVars>>

NextEval == Evaluate

SpecEval == InitEval /\ [][NextEval]_vars

(***************************************************************************)
(* Text scenario: one expression text, handed to safe_eval of calc.py and  *)
(* to safe_eval of calc_gui.py with no bindings.                           *)
(***************************************************************************)
MaxText == 4

TextChars == {"5", "0", "2", ".", "%", "+", " ", "("}

Chars(str) == CASE str = "200+50%" -> <<"2", "0", "0", "+", "5", "0", "%">>
                [] str = "10 % 3"  -> <<"1", "0", " ", "%", " ", "3">>
                [] str = "-7%2"    -> <<"-", "7", "%", "2">>

Texts ==
    UNION {[1..len -> TextChars] : len \in 0..MaxText}
    \cup {Chars(str) : str \in {"200+50%", "10 % 3", "-7%2"}}

EvalIdle ==
    /\ tree = Constant(NoneV) /\ names = EmptyNames
    /\ flavour = "cli" /\ result = Pending

InitText ==
    /\ phase = "input"
    /\ EvalIdle
    /\ ReplIdle
    /\ GuiNew
    /\ text \in Texts
    /\ cliResult = Pending
    /\ guiResult = Pending

EvaluateText ==
    /\ phase = "input"
    /\ cliResult' = safe_eval_cli(text, EmptyNames)
    /\ guiResult' = safe_eval_gui(text, EmptyNames)
    /\ phase' = "done"
    /\ UNCHANGED <<text, evalVars, replVars, guiVars>>

NextText == EvaluateText

SpecText == InitText /\ [][NextText]_vars

(***************************************************************************)
(* run_repl of calc.py: the interactive loop.  A step reads one line       *)
(* (input() returns it) or meets end of input or an interrupt.             *)
(***************************************************************************)
MaxLines == 3

EofMark == <<"<EOF>">>

ReplLines ==
    { <<>>,
      <<" ">>,
      <<" ", "4", " ">>,
      <<"1", "+", "2">>,
      <<"-", "8">>,
      <<"a", "n", "s", "+", "1">>,
      <<"(", "-", "8", ")", "*", "*", ".", "5">>,
      <<"a", "n", "s", "/", "3">>,
      <<"1", "/", "0">>,
      <<"2", "+">>,
      <<"{", "1", "}">>,
      <<"x">>,
      <<"5", "0", "%">>,
      <<"s", "q", "r", "t", "(", "9", ")">> }

\* float(val) of an outcome that is a value
ToFloat(val) == IF val.exc = "ok" THEN PyFloat(val.val) ELSE val

\* the report with ans put back to 0.0 by a line that fails
ReplReport_ResetsOnError(a, flt) ==
    IF flt.exc = "ok"
    THEN [ans |-> flt.val,
          printed |-> [kind |-> "value", text |-> format_num(flt.val), msg |-> ""]]
    ELSE [ans |-> FloatV(0, 1),
          printed |-> [kind |-> "error", text |-> <<>>, msg |-> flt.msg]]

\* ans = float(val); print(format_num(ans)), or the except branch
ReplReport(a, flt) ==
    IF flt.exc = "ok"
    THEN [ans |-> flt.val,
          printed |-> [kind |-> "value", text |-> format_num(flt.val), msg |-> ""]]
    ELSE [ans |-> a, printed |-> [kind |-> "error", text |-> <<>>, msg |-> flt.msg]]

\* the line after strip(): skipped when empty, else evaluated
ReplStripped(line, a) ==
    IF line = <<>> THEN [ans |-> a, printed |-> NoPrint]
    ELSE ReplReport(a, ToFloat(safe_eval_cli(line, [ans |-> a])))

\* the body of the try block for one line read: the new ans and the print
ReplBody(l, a) == ReplStripped(strip(l), a)

InitRepl ==
    /\ phase = "repl"
    /\ EvalIdle
    /\ TextIdle
    /\ GuiNew
    /\ ans = FloatV(0, 1)
    /\ replOn = TRUE
    /\ printed = NoPrint
    /\ replLog = <<>>

ReplLine(l) ==
    /\ phase = "repl" /\ replOn /\ Len(replLog) < MaxLines
    /\ ans' = ReplBody(l, ans).ans
    /\ printed' = ReplBody(l, ans).printed
    /\ replLog' = Append(replLog, l)
    /\ UNCHANGED <<phase, replOn, evalVars, textVars, guiVars>>

\* EOFError or KeyboardInterrupt: print() and break
ReplEnd ==
    /\ phase = "repl" /\ replOn /\ Len(replLog) < MaxLines
    /\ replOn' = FALSE
    /\ printed' = NoPrint
    /\ replLog' = Append(replLog, EofMark)
    /\ UNCHANGED <<phase, ans, evalVars, textVars, guiVars>>

NextRepl == (\E l \in ReplLines : ReplLine(l)) \/ ReplEnd

SpecRepl == InitRepl /\ [][NextRepl]_vars

(***************************************************************************)
(* CalcApp of calc_gui.py.  A step is one handler: a key or button token   *)
(* through on_key, text typed into the entry bound to self.expr, a click   *)
(* on a row of the listbox, Use Selected, Clear History.  An error dialog  *)
(* is modal: it is closed before the next handler runs.                    *)
(***************************************************************************)
MaxLen == 2

MaxHist == 2

\* tokens that on_key appends, a sample of the keys of on_keypress
GuiKeys == {"7"}

\* texts typed into the entry
GuiTexts ==
    { <<"a", "n", "s">>,
      <<" ", "7", "-", "8", " ">>,
      <<"{", "7", "}">>,
      <<"(", "-", "8", ")", "*", "*", ".", "5">>,
      <<"(", ")">> }

\* self.last_result = float(val); res = fmt_num(self.last_result)
EqualsReport(lr, flt) ==
    IF flt.exc = "ok"
    THEN [ok |-> TRUE, last_result |-> flt.val, res |-> fmt_num(flt.val), msg |-> ""]
    ELSE [ok |-> FALSE, last_result |-> lr, res |-> <<>>, msg |-> flt.msg]

\* the try block of equals for the stripped text s and last result lr
equals_try(s, lr) == EqualsReport(lr, ToFloat(safe_eval_gui(s, [ans |-> lr])))

\* f"{s} = {res}"
Rendering(s, res) == s \o <<" ", "=", " ">> \o res

\* self.hlist.insert(0, item), with the item put at the end instead
hlist_insert_AtEnd(items, item) == Append(items, item)

\* self.hlist.insert(0, item)
hlist_insert(items, item) == <<item>> \o items

\* item.split("=", 1)[1].strip(); the item holds an "="
AfterEquals(item) ==
    LET i == CHOOSE k \in 1..Len(item) :
                 item[k] = "=" /\ \A j \in 1..(k - 1) : item[j] # "="
    IN  strip(SubSeq(item, i + 1, Len(item)))

InitGui ==
    /\ phase = "gui"
    /\ EvalIdle
    /\ TextIdle
    /\ ReplIdle
    /\ GuiNew

\* on_key(token), the normal append
Key(token) ==
    /\ phase = "gui" /\ Len(expr) < MaxLen
    /\ expr' = Append(expr, token)
    /\ alert' = NoAlert /\ lastAction' = "key"
    /\ UNCHANGED <<last_result, history, hlist, history_line, sel>>

\* the entry self.screen edits self.expr
EntryInput(t) ==
    /\ phase = "gui"
    /\ expr' = t
    /\ alert' = NoAlert /\ lastAction' = "entry"
    /\ UNCHANGED <<last_result, history, hlist, history_line, sel>>

\* on_key("ac")
AC ==
    /\ phase = "gui"
    /\ expr' = <<>>
    /\ history_line' = <<>>
    /\ alert' = NoAlert /\ lastAction' = "ac"
    /\ UNCHANGED <<last_result, history, hlist, sel>>

\* on_key("del")
DEL ==
    /\ phase = "gui"
    /\ expr' = SubSeq(expr, 1, Len(expr) - 1)
    /\ alert' = NoAlert /\ lastAction' = "del"
    /\ UNCHANGED <<last_result, history, hlist, history_line, sel>>

\* equals with the last result stored and the entry emptied before the
\* outcome of the try is known
EqualsEffect_WritesBeforeOutcome(s, t) ==
    IF s = <<>>
    THEN /\ alert' = NoAlert
         /\ UNCHANGED <<expr, last_result, history, hlist, history_line, sel>>
    ELSE IF t.ok
    THEN /\ last_result' = t.last_result
         /\ history_line' = s \o <<" ", "=">>
         /\ expr' = t.res
         /\ history' = Append(history, <<s, t.res>>)
         /\ hlist' = hlist_insert(hlist, Rendering(s, t.res))
         /\ sel' = IF sel = 0 THEN 0 ELSE sel + 1
         /\ alert' = NoAlert
    ELSE /\ alert' = [open |-> TRUE, msg |-> t.msg]
         /\ last_result' = FloatV(0, 1)
         /\ expr' = <<>>
         /\ UNCHANGED <<history, hlist, history_line, sel>>

\* what equals does with the stripped text s and the outcome t of its try
EqualsEffect(s, t) ==
    IF s = <<>>
    THEN /\ alert' = NoAlert
         /\ UNCHANGED <<expr, last_result, history, hlist, history_line, sel>>
    ELSE IF t.ok
    THEN /\ last_result' = t.last_result
         /\ history_line' = s \o <<" ", "=">>
         /\ expr' = t.res
         /\ history' = Append(history, <<s, t.res>>)
         /\ hlist' = hlist_insert(hlist, Rendering(s, t.res))
         /\ sel' = IF sel = 0 THEN 0 ELSE sel + 1
         /\ alert' = NoAlert
    ELSE /\ alert' = [open |-> TRUE, msg |-> t.msg]
         /\ UNCHANGED <<expr, last_result, history, hlist, history_line, sel>>

\* on_key("="): equals, push_history, flash_error
equals ==
    /\ phase = "gui" /\ Len(history) < MaxHist
    /\ lastAction' = "equals"
    /\ EqualsEffect(strip(expr), equals_try(strip(expr), last_result))

\* a click on row i of the listbox
Select(i) ==
    /\ phase = "gui" /\ i \in 1..Len(hlist)
    /\ sel' = i
    /\ alert' = NoAlert /\ lastAction' = "select"
    /\ UNCHANGED <<expr, last_result, history, hlist, history_line>>

use_selected ==
    /\ phase = "gui"
    /\ expr' = IF sel = 0 THEN expr ELSE AfterEquals(hlist[sel])
    /\ alert' = NoAlert /\ lastAction' = "use"
    /\ UNCHANGED <<last_result, history, hlist, history_line, sel>>

clear_history ==
    /\ phase = "gui"
    /\ history' = <<>>
    /\ hlist' = <<>>
    /\ sel' = 0
    /\ alert' = NoAlert /\ lastAction' = "clear"
    /\ UNCHANGED <<expr, last_result, history_line>>

NextGui ==
    /\ \/ \E token \in GuiKeys : Key(token)
       \/ \E t \in GuiTexts : EntryInput(t)
       \/ AC
       \/ DEL
       \/ equals
       \/ \E i \in 1..MaxHist : Select(i)
       \/ use_selected
       \/ clear_history
    /\ UNCHANGED <<phase, evalVars, textVars, replVars>>

SpecGui == InitGui /\ [][NextGui]_vars

(***************************************************************************)
(* Properties of the evaluator.                                            *)
(***************************************************************************)
Whitelisted == {"Constant", "Name", "UnaryOp", "BinOp", "Call"}

RECURSIVE HasUnrecognized(_)
HasUnrecognized(t) ==
    \/ t.kind \notin Whitelisted
    \/ \E i \in 1..Len(t.kids) : HasUnrecognized(t.kids[i])

\* C1: a tree that holds a node of a kind outside the whitelist (number,
\* identifier, unary, binary, call) never evaluates to a result, None
\* included: evaluation fails with an error.
C1_ClosedWorld ==
    (phase = "done" /\ HasUnrecognized(tree)) => result.exc # "ok"

IsRegisteredCall(t) ==
    t.kind = "Call" /\ t.kids[1].kind = "Name" /\ t.kids[1].tag \in ALLOWED_FUNCS

\* C2: a call of a registered function with a number of arguments other
\* than 1 is rejected by the evaluator's own arity error, in both
\* evaluators, and the math function is not reached.
C2_ArityRejected ==
    (phase = "done" /\ IsRegisteredCall(tree) /\ Len(tree.kids) - 1 # 1)
        => (result.exc = "ValueError" /\ result.msg = "bad function arity")

\* C3: the evaluator never returns a complex value; a power with a
\* negative base and a fractional exponent fails with an error.
C3_NoComplex ==
    phase = "done" => ~(result.exc = "ok" /\ result.val.k = "complex")

IsSignedInt(t) ==
    \/ t.kind = "Constant" /\ t.val.k = "int"
    \/ /\ t.kind = "UnaryOp" /\ t.tag \in {"UAdd", "USub"}
       /\ t.kids[1].kind = "Constant" /\ t.kids[1].val.k = "int"

SignedInt(t) ==
    IF t.kind = "Constant" THEN t.val.n
    ELSE IF t.tag = "USub" THEN -t.kids[1].val.n ELSE t.kids[1].val.n

\* q is the floor of a/b
IsFloorOf(q, a, b) ==
    IF b > 0 THEN q * b <= a /\ a < (q + 1) * b
    ELSE q * b >= a /\ a > (q + 1) * b

IsIntResult(r) == r.exc = "ok" /\ r.val.k = "int" /\ r.val.d = 1

\* C6: an identifier resolves to the caller's binding when there is one,
\* else to the built-in constant of that name, else fails; so ans + 1 is
\* the bound ans plus one, and fails when ans is not bound.
C6_NameResolution ==
    /\ (phase = "done" /\ tree.kind = "Name") =>
          IF tree.tag \in DOMAIN names THEN result = Ret(names[tree.tag])
          ELSE IF tree.tag \in DOMAIN ALLOWED_NAMES
               THEN result = Ret(ALLOWED_NAMES[tree.tag])
               ELSE result.exc = "ValueError"
    /\ (phase = "done" /\ tree = BinOp(Name("ans"), "Add", Constant(IntV(1)))) =>
          IF "ans" \in DOMAIN names
          THEN result = Ret(FloatV(names["ans"].n + names["ans"].d, names["ans"].d))
          ELSE result.exc = "ValueError"

C6_Witness ==
    /\ phase = "done" /\ tree = Name("pi") /\ "pi" \in DOMAIN names
    /\ names["pi"] # ALLOWED_NAMES["pi"] /\ result = Ret(names["pi"])

\* C7: on integers a and b # 0, a // b is the floor of a/b and a % b is
\* zero or of b's sign, smaller than b in magnitude, with
\* a = (a // b) * b + (a % b); with b = 0 each of /, // and % fails with
\* a division error.
C7_FloorMod ==
    (/\ phase = "done" /\ tree.kind = "BinOp"
     /\ tree.tag \in {"Div", "FloorDiv", "Mod"}
     /\ IsSignedInt(tree.kids[1]) /\ IsSignedInt(tree.kids[2]))
    => LET a == SignedInt(tree.kids[1])
           b == SignedInt(tree.kids[2])
           r == result.val.n
       IN  IF b = 0 THEN result.exc = "ZeroDivisionError"
           ELSE CASE tree.tag = "FloorDiv" ->
                       IsIntResult(result) /\ IsFloorOf(r, a, b)
                  [] tree.tag = "Mod" ->
                       /\ IsIntResult(result)
                       /\ r = 0 \/ (r > 0 /\ b > 0) \/ (r < 0 /\ b < 0)
                       /\ Abs(r) < Abs(b)
                       /\ \E q \in -(MaxInt + 1)..(MaxInt + 1) :
                             IsFloorOf(q, a, b) /\ a = q * b + r
                  [] tree.tag = "Div" ->
                       result.exc = "ok" /\ result.val.k = "float"
                       /\ result.val.n * b = a * result.val.d

C7_Witness ==
    /\ phase = "done"
    /\ tree = BinOp(UnaryOp("USub", Constant(IntV(7))), "FloorDiv", Constant(IntV(2)))
    /\ result = Ret(IntV(-4))

(***************************************************************************)
(* Properties of the two safe_eval entry points on text.                   *)
(***************************************************************************)
\* cs is one number literal of Python
IsNumberLiteral(cs) ==
    /\ cs # <<>>
    /\ cs[1] \in Digits \/ (cs[1] = "." /\ At(cs, 2) \in Digits)
    /\ LexNumber(cs, 1).ok /\ LexNumber(cs, 1).next = Len(cs) + 1

LiteralValue(cs) == LexNumber(cs, 1).tok.v

\* cs is a number literal followed by '%' and nothing else
IsPercentOfLiteral(cs) ==
    Len(cs) >= 2 /\ cs[Len(cs)] = "%" /\ IsNumberLiteral(SubSeq(cs, 1, Len(cs) - 1))

\* the literal is written digits or digits.digits
IsPlainDecimal(cs) ==
    LET j == RunEnd(cs, 1, Digits)
    IN  j > 1 /\ (j = Len(cs) + 1
                  \/ (cs[j] = "." /\ j < Len(cs) /\ RunEnd(cs, j + 1, Digits) = Len(cs) + 1))

Hundredth(v) == FloatV(v.n, v.d * 100)

\* C4 (as claimed): N% evaluates to N x 0.01 for every number literal N,
\* and 200+50% to 200.5, through the evaluator of the line interface and
\* through that of the graphical interface alike.
C4_PercentBothCallers ==
    /\ (phase = "done" /\ IsPercentOfLiteral(text)) =>
          /\ guiResult = Ret(Hundredth(LiteralValue(SubSeq(text, 1, Len(text) - 1))))
          /\ cliResult = guiResult
    /\ (phase = "done" /\ text = Chars("200+50%")) =>
          /\ guiResult = Ret(FloatV(401, 2))
          /\ cliResult = guiResult

\* C4 (amended): through the graphical interface's evaluator, N% evaluates
\* to N x 0.01 for every number literal N written digits or digits.digits,
\* and 200+50% to 200.5; the line interface's evaluator rejects the same
\* texts with a syntax error.
C4_PercentGuiOnly ==
    /\ (/\ phase = "done" /\ IsPercentOfLiteral(text)
        /\ IsPlainDecimal(SubSeq(text, 1, Len(text) - 1))) =>
          /\ guiResult = Ret(Hundredth(LiteralValue(SubSeq(text, 1, Len(text) - 1))))
          /\ cliResult.exc = "SyntaxError"
    /\ (phase = "done" /\ text = Chars("200+50%")) =>
          /\ guiResult = Ret(FloatV(401, 2))
          /\ cliResult.exc = "SyntaxError"

C4_Witness ==
    /\ phase = "done" /\ text = <<"5", "0", "%">>
    /\ guiResult = Ret(FloatV(1, 2)) /\ cliResult.exc = "SyntaxError"

\* the text is <integer literal> % <integer literal>, blanks allowed
IsLiteralModulo(cs) ==
    LET t == parse(cs)
    IN  /\ t.ok /\ t.node.kind = "BinOp" /\ t.node.tag = "Mod"
        /\ \A i \in 1..2 : t.node.kids[i].kind = "Constant"
                           /\ t.node.kids[i].val.k = "int"
        /\ t.node.kids[2].val.n > 0

\* C5: a '%' with a right-hand operand is binary modulo, also for text
\* handed to the graphical interface's evaluator: N % M evaluates to the
\* remainder of N by M.
C5_BinaryModuloIntact ==
    (phase = "done" /\ IsLiteralModulo(text)) =>
        guiResult = Ret(IntV(parse(text).node.kids[1].val.n
                                % parse(text).node.kids[2].val.n))

(***************************************************************************)
(* Properties of the interactive loop.                                     *)
(***************************************************************************)
\* what a line is worth when ans is a: its value as a float, or its failure
LineValue(l, a) ==
    IF l = EofMark \/ strip(l) = <<>> THEN Raise("nothing", "")
    ELSE ToFloat(safe_eval_cli(strip(l), [ans |-> a]))

\* the value now when the line evaluated, else the one before
Latest(before, now) == IF now.exc = "ok" THEN now.val ELSE before

LatestOf(l, before) == Latest(before, LineValue(l, before))

\* the value of the most recent line of log that evaluated, 0.0 if none
RECURSIVE AnsAfter(_)
AnsAfter(log) ==
    IF log = <<>> THEN FloatV(0, 1)
    ELSE LatestOf(log[Len(log)], AnsAfter(SubSeq(log, 1, Len(log) - 1)))

\* what the last line read, worth now, has printed and left in ans
LastLineReported(before, now) ==
    /\ now.exc = "ok" => printed.kind = "value"
    /\ now.exc = "nothing" => printed = NoPrint
    /\ now.exc \notin {"ok", "nothing"} => printed.kind = "error" /\ ans = before

LastLineFrom(l, before) == LastLineReported(before, LineValue(l, before))

\* C8: in the interactive loop ans is the value of the most recent line
\* that evaluated (0.0 if none): a line that fails in parsing, evaluation
\* or conversion prints an error and leaves ans as it was, a blank line
\* changes nothing, and the loop is left only at end of input or interrupt.
C8_ReplAns ==
    phase = "repl" =>
        /\ ans = AnsAfter(replLog)
        /\ replOn = (\A i \in 1..Len(replLog) : replLog[i] # EofMark)
        /\ replLog # <<>> =>
              LastLineFrom(replLog[Len(replLog)],
                           AnsAfter(SubSeq(replLog, 1, Len(replLog) - 1)))

C8_Witness ==
    /\ phase = "repl" /\ Len(replLog) = 3 /\ replOn
    /\ replLog[1] = <<"1", "+", "2">>
    /\ replLog[2] = <<"{", "1", "}">>
    /\ replLog[3] = <<"a", "n", "s", "+", "1">>
    /\ ans = FloatV(4, 1)

(***************************************************************************)
(* Properties of the graphical interface.                                  *)
(***************************************************************************)
\* what "=" makes of the entry text e when the last result is lr: the
\* float it evaluates to, or the failure of parsing, evaluation or float()
EqualsValue(e, lr) == ToFloat(safe_eval_gui(strip(e), [ans |-> lr]))

\* the step of "=" when the input was worth f
EqualsStep(f) ==
    IF f.exc = "ok"
    THEN /\ last_result' = f.val
         /\ expr' = fmt_num(f.val)
         /\ history' = Append(history, <<strip(expr), fmt_num(f.val)>>)
         /\ ~alert'.open
    ELSE /\ alert'.open
         /\ UNCHANGED <<expr, last_result, history_line, history, hlist>>

\* C9: when "=" is pressed and the evaluation of the input fails at any
\* step, an error dialog opens and the input text, the last result, the
\* history-line label, the history list and the listbox stay as they were;
\* when it succeeds the last result is the new value, the input text is
\* its formatted form and exactly one (text, result) pair is appended.
C9_EqualsFrame ==
    [][(lastAction' = "equals" /\ strip(expr) # <<>>) =>
          EqualsStep(EqualsValue(expr, last_result))]_vars

\* a failed conversion of an evaluated result has just been reported, with
\* an earlier result still stored and an earlier pair still in the history
C9_Witness ==
    /\ phase = "gui" /\ lastAction = "equals" /\ alert.open
    /\ expr = <<"(", "-", "8", ")", "*", "*", ".", "5">>
    /\ last_result = FloatV(-1, 1)
    /\ history = << <<strip(<<" ", "7", "-", "8", " ">>), <<"-", "1">> >> >>

\* the listbox is the history list, rendered, newest first
Mirror ==
    /\ Len(hlist) = Len(history)
    /\ \A i \in 0..(Len(hlist) - 1) :
          LET pair == history[Len(history) - i]
          IN  hlist[i + 1] = Rendering(pair[1], pair[2])

\* C10: the listbox has as many entries as the history list and entry i
\* renders the history entry at length - 1 - i; Clear History empties
\* both; AC, DEL and Use Selected change neither.
C10_HistoryMirror ==
    /\ Mirror
    /\ [][/\ Mirror'
          /\ lastAction' = "clear" => history' = <<>> /\ hlist' = <<>>
          /\ lastAction' \in {"ac", "del", "use"} => UNCHANGED <<history, hlist>>]_vars

\* two different entries are held, and Use Selected has just run
C10_Witness ==
    /\ phase = "gui" /\ lastAction = "use" /\ sel = 2
    /\ Len(history) = 2 /\ history[1] # history[2]
    /\ expr = history[1][2]

=============================================================================
